---- MODULE Spec2Model ----
(***************************************************************************)
(* Model of the dinder review session (src/tui.go): the bubbletea model    *)
(* struct, its Update function with the per-screen key handlers, the       *)
(* traversal (nextFile / prepareConfirmation) and the deletion command     *)
(* (deleteFiles), together with the runtime that delivers messages:        *)
(* key presses, the loadFiles command, tick timers and the goroutine that  *)
(* runs the deletion command.                                              *)
(*                                                                         *)
(* Go slices are 0-based, TLA+ sequences 1-based: currentFile keeps the    *)
(* Go value, and files[currentFile + 1] is Go's m.files[m.currentFile].    *)
(***************************************************************************)
EXTENDS Integers, Sequences, FiniteSets, TLC

\* ---------------------------------------------------------------- bounds
\* Largest catalog scanDirectory delivers in the model; paths are 1..MaxFiles.
MaxFiles == 3

\* ------------------------------------------------------------- constants
ScreenLoading == 0
ScreenReview == 1
ScreenConfirm == 2
ScreenProgress == 3
ScreenComplete == 4

\* len(spinnerFrames)
SpinnerFrames == 10

Screens == {ScreenLoading, ScreenReview, ScreenConfirm, ScreenProgress, ScreenComplete}

\* Key strings (tea.KeyMsg.String()) fed to Update.  "x" stands for any key
\* no handler names.
Keys == {"right", "l", "y", "left", "h", "n", "s", "u", "q", "ctrl+c", "x"}

Paths == 1 .. MaxFiles

\* FileItem as scanDirectory builds it (Keep, Decided, Skipped all false).
\* Name, IsDir, ModTime and Preview are only read by View and are left out.
NewFileItem(p) ==
    [Path |-> p, Size |-> p, Keep |-> FALSE, Decided |-> FALSE, Skipped |-> FALSE]

RECURSIVE SortedSeq(_)
\* WalkDir visits entries in lexical order: the catalog of a set of paths.
SortedSeq(S) ==
    IF S = {} THEN << >>
    ELSE LET m == CHOOSE x \in S : \A y \in S : x <= y
         IN  << NewFileItem(m) >> \o SortedSeq(S \ {m})

\* Every result scanDirectory can return without error, up to MaxFiles items.
Catalogs == { SortedSeq(S) : S \in SUBSET Paths }

\* ----------------------------------------------------------------- state
VARIABLES
    screen,       \* m.screen
    files,        \* m.files
    currentFile,  \* m.currentFile (0-based)
    toDelete,     \* m.toDelete
    toSkip,       \* m.toSkip
    spinner,      \* m.spinner
    progress,     \* m.progress
    maxProgress,  \* m.maxProgress
    totalSize,    \* m.totalSize
    err,          \* m.err ("nil" or "error")
    loadCmd,      \* the loadFiles command: "pending" until its message is handled
    ticks,        \* number of tea.Tick timers armed and not yet delivered
    delState,     \* the deleteFiles command: "idle", "running", "delivered"
    delList,      \* m.toDelete as captured by the deleteFiles closure
    removed,      \* os.RemoveAll calls made so far: <<[Path, ok]>>
    quit,         \* TRUE once Update has returned tea.Quit
    lastMsg,      \* the message the last Update call handled
    ref           \* the reference session: undo by an explicit stack of actions

modelVars == << screen, files, currentFile, toDelete, toSkip, spinner,
                progress, maxProgress, totalSize, err >>
runtimeVars == << loadCmd, ticks, delState, delList, removed, quit >>
vars == << screen, files, currentFile, toDelete, toSkip, spinner, progress,
           maxProgress, totalSize, err, loadCmd, ticks, delState, delList,
           removed, quit, lastMsg, ref >>

\* A handled message: its type, its key string (KeyMsg only) and the screen
\* Update found the model in.
Msg(t, k, sc) == [type |-> t, key |-> k, screen |-> sc]

\* initialModel() followed by Init(): tea.Batch(tick(), loadFiles).
Init ==
    /\ screen = ScreenLoading
    /\ files = << >>
    /\ currentFile = 0
    /\ toDelete = << >>
    /\ toSkip = << >>
    /\ spinner = 0
    /\ progress = 0
    /\ maxProgress = 0
    /\ totalSize = 0
    /\ err = "nil"
    /\ loadCmd = "pending"
    /\ ticks = 1
    /\ delState = "idle"
    /\ delList = << >>
    /\ removed = << >>
    /\ quit = FALSE
    /\ lastMsg = Msg("none", "", ScreenLoading)
    /\ ref = [cursor |-> 0, items |-> << >>, stack |-> << >>]

\* ------------------------------------------------------ traversal helpers
RECURSIVE SumSize(_)
SumSize(s) == IF s = << >> THEN 0 ELSE Head(s).Size + SumSize(Tail(s))

\* Faulty variant: the Decided test is forgotten, so an item that was only
\* skipped (Keep still false) counts as marked for deletion.
IsDeleteMarkedIgnoringDecided(f) == ~f.Keep

IsDeleteMarked(f) == f.Decided /\ ~f.Keep

\* prepareConfirmation: the three values it computes from m.files.
ToDeleteOf(fs) == SelectSeq(fs, IsDeleteMarked)

IsSkipListed(f) == ~IsDeleteMarked(f) /\ f.Skipped

ToSkipOf(fs) == SelectSeq(fs, IsSkipListed)

TotalSizeOf(fs) == SumSize(ToDeleteOf(fs))

RECURSIVE NextIndexRevisit(_, _)
\* Faulty variant: at the end of the list the cursor goes back to the first
\* deferred item (a second sweep) instead of stopping at len(files).
NextIndexRevisit(fs, cur) ==
    LET c == cur + 1
        skipped == { i \in 1 .. Len(fs) : fs[i].Skipped }
    IN  IF c >= Len(fs)
        THEN IF skipped = {} THEN c
             ELSE (CHOOSE i \in skipped : \A j \in skipped : i <= j) - 1
        ELSE IF ~fs[c + 1].Skipped THEN c
        ELSE NextIndexRevisit(fs, c)

RECURSIVE NextIndex(_, _)
\* The loop of nextFile: increment, stop at the end of the list or at the
\* first item that is not Skipped.
NextIndex(fs, cur) ==
    LET c == cur + 1
    IN  IF c >= Len(fs) THEN c
        ELSE IF ~fs[c + 1].Skipped THEN c
        ELSE NextIndex(fs, c)

\* Faulty variant: at the end of the list the sets are prepared but
\* m.screen = ScreenConfirm is missing.
nextFileNoConfirm(fs) ==
    LET c == NextIndex(fs, currentFile)
    IN  /\ files' = fs
        /\ currentFile' = c
        /\ IF c >= Len(fs)
           THEN /\ toDelete' = ToDeleteOf(fs)
                /\ toSkip' = ToSkipOf(fs)
                /\ totalSize' = TotalSizeOf(fs)
           ELSE UNCHANGED << toDelete, toSkip, totalSize >>
        /\ UNCHANGED << screen, spinner, progress, maxProgress, err >>
        /\ UNCHANGED runtimeVars

\* nextFile on a model whose files are fs.
nextFile(fs) ==
    LET c == NextIndex(fs, currentFile)
    IN  /\ files' = fs
        /\ currentFile' = c
        /\ IF c >= Len(fs)
           THEN /\ toDelete' = ToDeleteOf(fs)
                /\ toSkip' = ToSkipOf(fs)
                /\ totalSize' = TotalSizeOf(fs)
                /\ screen' = ScreenConfirm
           ELSE UNCHANGED << toDelete, toSkip, totalSize, screen >>
        /\ UNCHANGED << spinner, progress, maxProgress, err >>
        /\ UNCHANGED runtimeVars

\* return m, tea.Quit
Quit ==
    /\ quit' = TRUE
    /\ UNCHANGED modelVars
    /\ UNCHANGED << loadCmd, ticks, delState, delList, removed >>

\* return m, nil with m untouched
Ignore ==
    /\ UNCHANGED modelVars
    /\ UNCHANGED runtimeVars

IsKeepKey(k) == k \in {"right", "l", "y"}

IsDeleteKey(k) == k \in {"left", "h", "n"}

MarkKeep(fs, i) == [fs EXCEPT ![i + 1].Keep = TRUE, ![i + 1].Decided = TRUE]

MarkDelete(fs, i) == [fs EXCEPT ![i + 1].Keep = FALSE, ![i + 1].Decided = TRUE]

\* Faulty variant: a skipped item is moved to the end of the list, to be
\* reviewed later.
MarkSkippedRequeue(fs, i) ==
    SubSeq(fs, 1, i) \o SubSeq(fs, i + 2, Len(fs))
        \o << [fs[i + 1] EXCEPT !.Skipped = TRUE] >>

MarkSkipped(fs, i) == [fs EXCEPT ![i + 1].Skipped = TRUE]

\* Faulty variant: undo clears the deferred flag and leaves the decision.
ResetItemDeferredOnly(fs, i) == [fs EXCEPT ![i + 1].Skipped = FALSE]

\* Faulty variant: undo clears the decision and leaves the deferred flag.
ResetItemDecisionOnly(fs, i) == [fs EXCEPT ![i + 1].Decided = FALSE]

ResetItem(fs, i) == [fs EXCEPT ![i + 1].Decided = FALSE, ![i + 1].Skipped = FALSE]

\* Faulty variant: the currentFile > 0 guard is missing from the decrement.
UndoUnguarded ==
    /\ currentFile' = currentFile - 1
    /\ files' = IF currentFile > 0 THEN ResetItem(files, currentFile - 1) ELSE files
    /\ UNCHANGED << screen, toDelete, toSkip, spinner, progress, maxProgress,
                    totalSize, err >>
    /\ UNCHANGED runtimeVars

\* Faulty variant: undo steps back over deferred items, to the last item that
\* is not deferred, as nextFile steps over them going forward.
UndoSkipsDeferred ==
    /\ LET back == { j \in 0 .. (currentFile - 1) : ~files[j + 1].Skipped }
       IN  IF back # {}
           THEN LET p == CHOOSE j \in back : \A h \in back : h <= j
                IN  /\ currentFile' = p
                    /\ files' = ResetItem(files, p)
           ELSE UNCHANGED << currentFile, files >>
    /\ UNCHANGED << screen, toDelete, toSkip, spinner, progress, maxProgress,
                    totalSize, err >>
    /\ UNCHANGED runtimeVars

\* Faulty variant: undo steps back and leaves the item as it was decided.
UndoNoReset ==
    /\ IF currentFile > 0
       THEN currentFile' = currentFile - 1
       ELSE UNCHANGED currentFile
    /\ UNCHANGED << files, screen, toDelete, toSkip, spinner, progress,
                    maxProgress, totalSize, err >>
    /\ UNCHANGED runtimeVars

\* case "u" of handleReviewInput
Undo ==
    /\ IF currentFile > 0
       THEN /\ currentFile' = currentFile - 1
            /\ files' = ResetItem(files, currentFile - 1)
       ELSE UNCHANGED << currentFile, files >>
    /\ UNCHANGED << screen, toDelete, toSkip, spinner, progress, maxProgress,
                    totalSize, err >>
    /\ UNCHANGED runtimeVars

handleReviewInput(k) ==
    IF IsKeepKey(k) THEN nextFile(MarkKeep(files, currentFile))
    ELSE IF IsDeleteKey(k) THEN nextFile(MarkDelete(files, currentFile))
    ELSE IF k = "s" THEN nextFile(MarkSkipped(files, currentFile))
    ELSE IF k = "u" THEN Undo
    ELSE IF k = "q" THEN Quit
    ELSE Ignore

\* Faulty variant: the closure ranges over m.files instead of m.toDelete.
ConfirmYesAllFiles ==
    /\ screen' = ScreenProgress
    /\ maxProgress' = Len(toDelete)
    /\ ticks' = ticks + 1
    /\ delState' = "running"
    /\ delList' = files
    /\ UNCHANGED << files, currentFile, toDelete, toSkip, spinner, progress,
                    totalSize, err >>
    /\ UNCHANGED << loadCmd, removed, quit >>

\* case "y" of handleConfirmInput: tea.Batch(tick(), m.deleteFiles()); the
\* closure deleteFiles returns holds the m.toDelete of this moment.
ConfirmYes ==
    /\ screen' = ScreenProgress
    /\ maxProgress' = Len(toDelete)
    /\ ticks' = ticks + 1
    /\ delState' = "running"
    /\ delList' = toDelete
    /\ UNCHANGED << files, currentFile, toDelete, toSkip, spinner, progress,
                    totalSize, err >>
    /\ UNCHANGED << loadCmd, removed, quit >>

\* Faulty variant: "n" shares the case of "y" and starts the deletion.
handleConfirmInputNoCancel(k) ==
    IF k \in {"y", "n"} THEN ConfirmYes
    ELSE IF k = "q" THEN Quit
    ELSE Ignore

\* Faulty variant: "n" goes back to the Review screen instead of quitting.
handleConfirmInputBackToReview(k) ==
    IF k = "y" THEN ConfirmYes
    ELSE IF k = "n"
         THEN /\ screen' = ScreenReview
              /\ UNCHANGED << files, currentFile, toDelete, toSkip, spinner,
                              progress, maxProgress, totalSize, err >>
              /\ UNCHANGED runtimeVars
    ELSE IF k = "q" THEN Quit
    ELSE Ignore

\* Faulty variant: "u" is honoured in the Confirm screen too.
handleConfirmInputUndo(k) ==
    IF k = "y" THEN ConfirmYes
    ELSE IF k \in {"n", "q"} THEN Quit
    ELSE IF k = "u" THEN Undo
    ELSE Ignore

handleConfirmInput(k) ==
    IF k = "y" THEN ConfirmYes
    ELSE IF k \in {"n", "q"} THEN Quit
    ELSE Ignore

\* ---------------------------------------------------------------- Update
\* Faulty variant: "q" quits from every screen, like ctrl+c.
KeyMsgGlobalQ(k) ==
    /\ ~quit
    /\ lastMsg' = Msg("key", k, screen)
    /\ IF screen = ScreenReview THEN handleReviewInput(k)
       ELSE IF screen = ScreenConfirm THEN handleConfirmInput(k)
       ELSE IF k \in {"q", "ctrl+c"} THEN Quit
       ELSE Ignore

\* case tea.KeyMsg
KeyMsg(k) ==
    /\ ~quit
    /\ lastMsg' = Msg("key", k, screen)
    /\ IF screen = ScreenReview THEN handleReviewInput(k)
       ELSE IF screen = ScreenConfirm THEN handleConfirmInput(k)
       ELSE IF screen = ScreenComplete /\ k \in {"q", "ctrl+c"} THEN Quit
       ELSE IF k = "ctrl+c" THEN Quit
       ELSE Ignore

\* Faulty variant: the len(m.files) == 0 test is missing.
FilesLoadedNoEmptyCheck(cat) ==
    /\ ~quit
    /\ loadCmd = "pending"
    /\ loadCmd' = "done"
    /\ lastMsg' = Msg("filesLoaded", "", screen)
    /\ files' = cat
    /\ screen' = ScreenReview
    /\ UNCHANGED << currentFile, toDelete, toSkip, spinner, progress,
                    maxProgress, totalSize, err >>
    /\ UNCHANGED << ticks, delState, delList, removed, quit >>

\* loadFiles returned filesLoadedMsg(cat); case filesLoadedMsg
FilesLoaded(cat) ==
    /\ ~quit
    /\ loadCmd = "pending"
    /\ loadCmd' = "done"
    /\ lastMsg' = Msg("filesLoaded", "", screen)
    /\ files' = cat
    /\ screen' = IF Len(cat) = 0 THEN ScreenComplete ELSE ScreenReview
    /\ UNCHANGED << currentFile, toDelete, toSkip, spinner, progress,
                    maxProgress, totalSize, err >>
    /\ UNCHANGED << ticks, delState, delList, removed, quit >>

\* Faulty variant: the error is stored and the program keeps running.
LoadErrorNoQuit ==
    /\ ~quit
    /\ loadCmd = "pending"
    /\ loadCmd' = "done"
    /\ lastMsg' = Msg("error", "", screen)
    /\ err' = "error"
    /\ UNCHANGED << screen, files, currentFile, toDelete, toSkip, spinner,
                    progress, maxProgress, totalSize >>
    /\ UNCHANGED << ticks, delState, delList, removed, quit >>

\* loadFiles returned the error of scanDirectory; case error
LoadError ==
    /\ ~quit
    /\ loadCmd = "pending"
    /\ loadCmd' = "done"
    /\ lastMsg' = Msg("error", "", screen)
    /\ err' = "error"
    /\ quit' = TRUE
    /\ UNCHANGED << screen, files, currentFile, toDelete, toSkip, spinner,
                    progress, maxProgress, totalSize >>
    /\ UNCHANGED << ticks, delState, delList, removed >>

\* Faulty variant: the timer is re-armed whatever the screen.
TickAlwaysRearm ==
    /\ ~quit
    /\ ticks > 0
    /\ lastMsg' = Msg("tick", "", screen)
    /\ IF screen = ScreenLoading \/ screen = ScreenProgress
       THEN spinner' = (spinner + 1) % SpinnerFrames
       ELSE spinner' = spinner
    /\ ticks' = ticks
    /\ UNCHANGED << screen, files, currentFile, toDelete, toSkip, progress,
                    maxProgress, totalSize, err >>
    /\ UNCHANGED << loadCmd, delState, delList, removed, quit >>

\* case tickMsg: one armed timer fires; it is re-armed in Loading and Progress
Tick ==
    /\ ~quit
    /\ ticks > 0
    /\ lastMsg' = Msg("tick", "", screen)
    /\ IF screen = ScreenLoading \/ screen = ScreenProgress
       THEN /\ spinner' = (spinner + 1) % SpinnerFrames
            /\ ticks' = ticks
       ELSE /\ spinner' = spinner
            /\ ticks' = ticks - 1
    /\ UNCHANGED << screen, files, currentFile, toDelete, toSkip, progress,
                    maxProgress, totalSize, err >>
    /\ UNCHANGED << loadCmd, delState, delList, removed, quit >>

\* One iteration of the loop in the deleteFiles closure: os.RemoveAll on the
\* next captured item.  The call may succeed or fail; its result is dropped.
\* The closure runs on its own goroutine, so it is not stopped by tea.Quit.
\* Faulty variant: the loop returns at the first failed removal, without
\* sending deletionCompleteMsg.
RemoveStepAbortOnError ==
    /\ delState = "running"
    /\ Len(removed) < Len(delList)
    /\ \A i \in 1 .. Len(removed) : removed[i].ok
    /\ \E ok \in BOOLEAN :
          removed' = Append(removed, [Path |-> delList[Len(removed) + 1].Path, ok |-> ok])
    /\ UNCHANGED modelVars
    /\ UNCHANGED << loadCmd, ticks, delState, delList, quit, lastMsg >>

RemoveStep ==
    /\ delState = "running"
    /\ Len(removed) < Len(delList)
    /\ \E ok \in BOOLEAN :
          removed' = Append(removed, [Path |-> delList[Len(removed) + 1].Path, ok |-> ok])
    /\ UNCHANGED modelVars
    /\ UNCHANGED << loadCmd, ticks, delState, delList, quit, lastMsg >>

\* Faulty variant: the message is sent from inside the loop, after the last
\* item, so an empty batch never reports completion.
DeletionCompleteAfterLastItem ==
    /\ ~quit
    /\ delState = "running"
    /\ Len(removed) = Len(delList)
    /\ Len(removed) > 0
    /\ delState' = "delivered"
    /\ lastMsg' = Msg("deletionComplete", "", screen)
    /\ screen' = ScreenComplete
    /\ UNCHANGED << files, currentFile, toDelete, toSkip, spinner, progress,
                    maxProgress, totalSize, err >>
    /\ UNCHANGED << loadCmd, ticks, delList, removed, quit >>

\* The closure returned deletionCompleteMsg{}; case deletionCompleteMsg
DeletionComplete ==
    /\ ~quit
    /\ delState = "running"
    /\ Len(removed) = Len(delList)
    /\ delState' = "delivered"
    /\ lastMsg' = Msg("deletionComplete", "", screen)
    /\ screen' = ScreenComplete
    /\ UNCHANGED << files, currentFile, toDelete, toSkip, spinner, progress,
                    maxProgress, totalSize, err >>
    /\ UNCHANGED << loadCmd, ticks, delList, removed, quit >>

\* ------------------------------------------------------ reference session
\* A session as section 4.1 of the specification describes it, with undo
\* done by popping an explicit stack of the actions taken.  It is fed the
\* catalog and the keys pressed in the Review screen and reads nothing else
\* of the program's state.
RefItem == [decision |-> "U", deferred |-> FALSE]

RefPopulate(cat) ==
    [cursor |-> 0, items |-> [i \in 1 .. Len(cat) |-> RefItem], stack |-> << >>]

\* Traversal rule: the first index after cur whose item is not deferred, or
\* the length of the list.
RefAdvance(items, cur) ==
    LET open == { j \in (cur + 1) .. (Len(items) - 1) : ~items[j + 1].deferred }
    IN  IF open = {} THEN Len(items)
        ELSE CHOOSE j \in open : \A h \in open : j <= h

\* decide(current, outcome) and defer_current(): record the action, then advance.
RefAct(r, kind) ==
    IF r.cursor >= Len(r.items) THEN r
    ELSE LET it == IF kind = "keep" THEN [decision |-> "K", deferred |-> FALSE]
                   ELSE IF kind = "delete" THEN [decision |-> "D", deferred |-> FALSE]
                   ELSE [r.items[r.cursor + 1] EXCEPT !.deferred = TRUE]
             items == [r.items EXCEPT ![r.cursor + 1] = it]
         IN  [cursor |-> RefAdvance(items, r.cursor),
              items |-> items,
              stack |-> Append(r.stack, [kind |-> kind, index |-> r.cursor])]

\* undo(): revert the action on top of the stack and go back to its item.
RefUndo(r) ==
    IF r.stack = << >> THEN r
    ELSE LET top == r.stack[Len(r.stack)]
         IN  [cursor |-> top.index,
              items |-> [r.items EXCEPT ![top.index + 1] = RefItem],
              stack |-> SubSeq(r.stack, 1, Len(r.stack) - 1)]

\* The reference session after key k is pressed in the Review screen.
RefKey(r, k) ==
    IF k \in {"right", "l", "y"} THEN RefAct(r, "keep")
    ELSE IF k \in {"left", "h", "n"} THEN RefAct(r, "delete")
    ELSE IF k = "s" THEN RefAct(r, "skip")
    ELSE IF k = "u" THEN RefUndo(r)
    ELSE r

Next ==
    \/ \E k \in Keys :
          /\ KeyMsg(k)
          /\ ref' = IF screen = ScreenReview THEN RefKey(ref, k) ELSE ref
    \/ \E cat \in Catalogs :
          /\ FilesLoaded(cat)
          /\ ref' = RefPopulate(cat)
    \/ LoadError /\ UNCHANGED ref
    \/ Tick /\ UNCHANGED ref
    \/ RemoveStep /\ UNCHANGED ref
    \/ DeletionComplete /\ UNCHANGED ref

Spec == Init /\ [][Next]_vars

\* The runtime runs the goroutine of the deletion command and delivers its
\* message: neither step waits forever while it stays possible.
FairSpec == Spec /\ WF_vars(RemoveStep /\ UNCHANGED ref) /\ WF_vars(DeletionComplete /\ UNCHANGED ref)


\* ------------------------------------------------------------------ View
\* case ScreenComplete of View: the number printed after "Files deleted:".
ViewFilesDeleted == Len(toDelete)

\* ------------------------------------------------- vocabulary of the claims
Undecided(f) == ~f.Decided
Kept(f) == f.Decided /\ f.Keep
Deleted(f) == f.Decided /\ ~f.Keep
Deferred(f) == f.Skipped
DeferredUndecided(f) == f.Skipped /\ ~f.Decided

PathsOf(s) == [i \in 1 .. Len(s) |-> s[i].Path]

\* The item of m.files at Go index i.
ItemAt(fs, i) == fs[i + 1]

\* The last Update call handled key k while the screen was sc.
Handled(k, sc) == lastMsg = Msg("key", k, sc)

\* This step is an Update call: every step but an iteration of the loop in
\* the deleteFiles closure is one, and lastMsg' is the message it handles.
UpdateStep == removed' = removed /\ vars' # vars

\* This step is an Update call that handles key k with the screen at sc.
Handles(k, sc) == ~quit /\ screen = sc /\ lastMsg' = Msg("key", k, sc) /\ UpdateStep

DecideKeys == {"right", "l", "y", "left", "h", "n"}

\* Indexes of the os.RemoveAll calls that succeeded / failed.
Succeeded == { i \in 1 .. Len(removed) : removed[i].ok }
Failed == { i \in 1 .. Len(removed) : ~removed[i].ok }

\* ------------------------------------------------------------------- C1
\* C1: no filesystem removal is attempted unless a "y" key was handled in
\* the Confirm screen: the deletion command is started only by that input,
\* and while it has not been started no os.RemoveAll call has been made
\* (so a run ended by q in Review, n or q in Confirm, or a catalog error
\* made none).
C1_NoRemovalWithoutConfirmYes ==
    /\ [][ (delState = "idle" /\ delState' # "idle")
             => (screen = ScreenConfirm /\ lastMsg' = Msg("key", "y", ScreenConfirm)) ]_vars
    /\ [][ removed' # removed => delState # "idle" ]_vars
    /\ [](delState = "idle" => removed = << >>)

\* A session cancelled in Confirm with deletions pending, and nothing removed.
C1_Witness ==
    /\ quit
    /\ screen = ScreenConfirm
    /\ Len(toDelete) > 0
    /\ lastMsg.key \in {"n", "q"}
    /\ removed = << >>

\* ------------------------------------------------------------------- C2
\* C2: when the cursor is at len(items), every item is exactly one of
\* Kept, Deleted, Deferred-and-undecided; toDelete is the subsequence of
\* the items marked Deleted, toSkip the subsequence of the deferred items,
\* and no path is in both.
C2_FinalPartition ==
    currentFile = Len(files) =>
        /\ \A i \in 1 .. Len(files) :
              /\ Kept(files[i]) \/ Deleted(files[i]) \/ DeferredUndecided(files[i])
              /\ ~(Kept(files[i]) /\ Deleted(files[i]))
              /\ ~(Kept(files[i]) /\ DeferredUndecided(files[i]))
              /\ ~(Deleted(files[i]) /\ DeferredUndecided(files[i]))
        /\ toDelete = SelectSeq(files, Deleted)
        /\ toSkip = SelectSeq(files, Deferred)
        /\ \A i \in 1 .. Len(toDelete) : \A j \in 1 .. Len(toSkip) :
              toDelete[i].Path # toSkip[j].Path

\* Traversal finished with one item of each class.
C2_Witness ==
    /\ screen = ScreenConfirm
    /\ currentFile = Len(files)
    /\ Len(toDelete) > 0
    /\ Len(toSkip) > 0
    /\ \E i \in 1 .. Len(files) : Kept(files[i])

\* ------------------------------------------------------------------- C3
\* C3: the os.RemoveAll calls made are, in order, the paths of the items
\* marked Deleted (a prefix of them while the command runs, all of them once
\* it has finished), each at most once, and never the path of an item that
\* is kept, deferred or undecided.
C3_RemovesExactlyPendingDeletionSet ==
    LET want == PathsOf(SelectSeq(files, Deleted))
    IN  /\ Len(removed) <= Len(want)
        /\ \A i \in 1 .. Len(removed) : removed[i].Path = want[i]
        /\ \A i, j \in 1 .. Len(removed) : i # j => removed[i].Path # removed[j].Path
        /\ \A i \in 1 .. Len(removed) : \A j \in 1 .. Len(files) :
              files[j].Path = removed[i].Path => Deleted(files[j])
        /\ delState = "delivered" => Len(removed) = Len(want)
        /\ delState # "idle" => PathsOf(delList) = want

\* The command finished a batch of two, with a kept or deferred item left.
C3_Witness ==
    /\ delState = "delivered"
    /\ Len(removed) >= 2
    /\ \E i \in 1 .. Len(files) : ~Deleted(files[i])

\* ------------------------------------------------------------------- C4
\* C4: a ctrl+c key terminates the program from every screen: once Update
\* has handled ctrl+c, tea.Quit has been returned.
C4_ForceQuitTerminates ==
    (lastMsg.type = "key" /\ lastMsg.key = "ctrl+c") => quit

\* ------------------------------------------------------------------- C5
\* The last Update call applied a decide (keep or delete) to an item.
DecideJustApplied ==
    /\ lastMsg.type = "key"
    /\ lastMsg.key \in DecideKeys
    /\ lastMsg.screen = ScreenReview

\* This step is an Update call handling the key "u".
UndoInput == ~quit /\ lastMsg'.type = "key" /\ lastMsg'.key = "u" /\ UpdateStep

\* The effect C5 asks of undo: one slot back, that item Undecided and
\* not deferred, the other items as they were.
UndoneOneSlot ==
    /\ currentFile' = currentFile - 1
    /\ Len(files') = Len(files)
    /\ ~files'[currentFile].Decided
    /\ ~files'[currentFile].Skipped
    /\ \A i \in 1 .. Len(files) : i # currentFile => files'[i] = files[i]

\* C5 as stated: an undo input right after any decide moves the cursor back
\* one slot and restores the item; an undo input at cursor 0 changes neither
\* the cursor nor any item.
C5_UndoAfterAnyDecide ==
    /\ [][ (DecideJustApplied /\ UndoInput) => UndoneOneSlot ]_vars
    /\ [][ (UndoInput /\ currentFile = 0) => UNCHANGED << currentFile, files >> ]_vars

\* C5 amended: the undo input right after a decide has that effect when the
\* decide left the screen in Review (the item decided was not the last one);
\* after a decide on the last item the screen is Confirm and the undo input
\* changes neither the cursor nor any item; so does an undo at cursor 0.
C5_UndoAfterDecideInReview ==
    /\ [][ (DecideJustApplied /\ UndoInput /\ screen = ScreenReview) => UndoneOneSlot ]_vars
    /\ [][ (DecideJustApplied /\ UndoInput /\ screen # ScreenReview)
             => (screen = ScreenConfirm /\ UNCHANGED << currentFile, files >>) ]_vars
    /\ [][ (UndoInput /\ currentFile = 0) => UNCHANGED << currentFile, files >> ]_vars

\* Scenario C: keep on the first of several items, then undo; the stale Keep
\* of the item shows that a keep was undone.
C5_Witness ==
    /\ Handled("u", ScreenReview)
    /\ currentFile = 0
    /\ Len(files) >= 2
    /\ files[1].Keep
    /\ ~files[1].Decided
    /\ ~files[1].Skipped

\* ------------------------------------------------------------------- C6
\* C6: in every reachable state 0 <= cursor <= len(items).
C6_CursorInRange ==
    /\ 0 <= currentFile
    /\ currentFile <= Len(files)

\* The upper end of the range: the cursor at the end of a list of several items.
C6_Witness ==
    /\ Len(files) >= 2
    /\ currentFile = Len(files)

\* ------------------------------------------------------------------- C7
\* C7: on the Complete screen after a deletion, the number of files reported
\* deleted is the number of removals that succeeded, so it counts no item
\* whose removal failed (and succeeded + failed = size of the set).
C7_ReportCountsOnlySuccesses ==
    (screen = ScreenComplete /\ delState = "delivered") =>
        /\ ViewFilesDeleted = Cardinality(Succeeded)
        /\ Cardinality(Succeeded) + Cardinality(Failed) = Len(toDelete)

\* ------------------------------------------------------------------- C8
\* C8: a removal failure is recorded (m.err is the one field of the model
\* that holds an error; deletionCompleteMsg carries nothing) and does not
\* abort the batch: once the command has finished every item of the set was
\* attempted, the screen is Complete, and the failure did not end the program.
C8_FailureRecordedBatchContinues ==
    /\ Failed # {} => err # "nil"
    /\ delState = "delivered" => Len(removed) = Len(toDelete)
    /\ delState = "delivered" => screen = ScreenComplete
    /\ (Failed # {} /\ quit) => lastMsg.type = "key"

\* ------------------------------------------------------------------- C9
AllowedScreenChange ==
    { << ScreenLoading, ScreenReview >>, << ScreenLoading, ScreenComplete >>,
      << ScreenReview, ScreenConfirm >>, << ScreenConfirm, ScreenProgress >>,
      << ScreenProgress, ScreenComplete >> }

\* C9: the screen is always one of the five, changes only along
\* Loading->Review, Loading->Complete, Review->Confirm, Confirm->Progress,
\* Progress->Complete, and never moves backwards.
C9_ScreenTransitions ==
    /\ [](screen \in Screens)
    /\ [][ screen' # screen => << screen, screen' >> \in AllowedScreenChange ]_vars
    /\ [][ screen' >= screen ]_vars

\* The whole path was walked: Complete reached through a deletion.
C9_Witness ==
    /\ screen = ScreenComplete
    /\ delState = "delivered"
    /\ Len(files) > 0

\* ------------------------------------------------------------------ C10
\* This step is an Update call handling keep, delete or skip in Review.
ForwardInput ==
    /\ ~quit
    /\ screen = ScreenReview
    /\ lastMsg'.type = "key"
    /\ lastMsg'.key \in DecideKeys \cup {"s"}
    /\ UpdateStep

\* C10: the cursor after a keep, delete or skip input is len(items) or the
\* index of an item that is not deferred; and whenever the cursor moves onto
\* an item that was deferred, the input was undo.
C10_ForwardNeverLandsOnDeferred ==
    /\ [][ ForwardInput =>
             (currentFile' = Len(files') \/ ~ItemAt(files', currentFile').Skipped) ]_vars
    /\ [][ (currentFile' # currentFile /\ currentFile' < Len(files)
              /\ ItemAt(files, currentFile').Skipped)
             => (screen = ScreenReview /\ lastMsg'.type = "key" /\ lastMsg'.key = "u") ]_vars

\* A forward move was made with a deferred item behind the cursor.
C10_Witness ==
    /\ screen = ScreenReview
    /\ lastMsg.type = "key"
    /\ lastMsg.key \in DecideKeys \cup {"s"}
    /\ lastMsg.screen = ScreenReview
    /\ currentFile >= 2
    /\ \E i \in 1 .. currentFile : files[i].Skipped


\* ------------------------------------------------------------------ C11
\* C11: no item is both deferred and decided; a skip input leaves the
\* decision of the current item as it was, and after a keep or delete input
\* the item decided is not deferred.
C11_DeferredOnlyWhileUndecided ==
    /\ [](\A i \in 1 .. Len(files) : ~(files[i].Decided /\ files[i].Skipped))
    /\ [][ Handles("s", ScreenReview) =>
             /\ ItemAt(files', currentFile).Skipped
             /\ ItemAt(files', currentFile).Decided = ItemAt(files, currentFile).Decided
             /\ ItemAt(files', currentFile).Keep = ItemAt(files, currentFile).Keep ]_vars
    /\ [][ (\E k \in DecideKeys : Handles(k, ScreenReview)) =>
             /\ ItemAt(files', currentFile).Decided
             /\ ~ItemAt(files', currentFile).Skipped ]_vars

\* Review with a decided item and a deferred item behind the cursor.
C11_Witness ==
    /\ screen = ScreenReview
    /\ currentFile >= 1
    /\ files[1].Decided
    /\ ~files[1].Skipped
    /\ \E i \in 1 .. currentFile : files[i].Skipped

\* ------------------------------------------------------------------ C12
\* C12: while the deletion runs the progress counter shown on the Progress
\* screen (m.progress) is the number of items processed so far, and it is the
\* size of the Pending Deletion Set when the completion message is handled.
C12_ProgressCountsProcessed ==
    /\ delState = "running" => progress = Len(removed)
    /\ delState = "delivered" => progress = Len(toDelete)

\* ------------------------------------------------------------------ C13
\* The inputs the transition table lists for a screen (ctrl+c, the force
\* quit, for every screen).
ListedKeys(sc) ==
    IF sc = ScreenReview THEN DecideKeys \cup {"s", "u", "q", "ctrl+c"}
    ELSE IF sc = ScreenConfirm THEN {"y", "n", "q", "ctrl+c"}
    ELSE IF sc = ScreenComplete THEN {"q", "ctrl+c"}
    ELSE {"ctrl+c"}

\* This step is an Update call handling a key the table does not list for
\* the current screen.
UnlistedInput ==
    /\ ~quit
    /\ lastMsg'.type = "key"
    /\ lastMsg'.screen = screen
    /\ lastMsg'.key \notin ListedKeys(screen)
    /\ UpdateStep

\* C13: an input not listed for the screen changes nothing: not the screen,
\* the cursor, an item, the derived sets or any other field, it starts no
\* deletion and does not end the program.
C13_UnlistedInputIgnored ==
    [][ UnlistedInput =>
          /\ UNCHANGED << screen, files, currentFile, toDelete, toSkip, spinner,
                          progress, maxProgress, totalSize, err >>
          /\ UNCHANGED << loadCmd, ticks, delState, delList, removed, quit >> ]_vars

\* "u" was pressed in Confirm with deletions pending, and the session goes on.
C13_Witness ==
    /\ Handled("u", ScreenConfirm)
    /\ screen = ScreenConfirm
    /\ Len(toDelete) > 0
    /\ ~quit

\* ------------------------------------------------------------------ C14
\* This step is the Update call handling filesLoadedMsg.
FilesLoadedStep == lastMsg'.type = "filesLoaded" /\ lastMsg.type # "filesLoaded"

\* C14: an empty catalog takes the screen from Loading to Complete, and from
\* then on the screen is Complete, both derived sets are empty and nothing is
\* removed; a non-empty catalog takes it to Review with the cursor at 0 and
\* every item Undecided and not deferred.
C14_CatalogLoaded ==
    /\ [][ FilesLoadedStep =>
             /\ screen = ScreenLoading
             /\ IF Len(files') = 0
                THEN screen' = ScreenComplete
                ELSE /\ screen' = ScreenReview
                     /\ currentFile' = 0
                     /\ \A i \in 1 .. Len(files') :
                           ~files'[i].Decided /\ ~files'[i].Skipped ]_vars
    /\ []((loadCmd = "done" /\ err = "nil" /\ Len(files) = 0) =>
             /\ screen = ScreenComplete
             /\ toDelete = << >>
             /\ toSkip = << >>
             /\ delState = "idle"
             /\ removed = << >>)

\* Scenario D: the empty catalog was loaded and the screen is Complete.
C14_Witness ==
    /\ loadCmd = "done"
    /\ err = "nil"
    /\ Len(files) = 0
    /\ screen = ScreenComplete

\* ------------------------------------------------------------------ C15
\* C15: once a catalog-load error is recorded the program has terminated,
\* the screen is still Loading, no item is attached and nothing is removed.
C15_CatalogErrorIsFatal ==
    err # "nil" =>
        /\ quit
        /\ lastMsg = Msg("error", "", ScreenLoading)
        /\ screen = ScreenLoading
        /\ files = << >>
        /\ delState = "idle"
        /\ removed = << >>

\* The error of scanDirectory was delivered.
C15_Witness ==
    /\ err = "error"
    /\ loadCmd = "done"

\* ------------------------------------------------------------------ C16
\* C16: a deletion started on an empty Pending Deletion Set makes no
\* os.RemoveAll call, can report completion at once, and ends on Complete
\* with zero files reported deleted, zero succeeded and zero failed; this
\* holds of every such run.
C16_EmptyBatchCompletesAtOnce ==
    /\ (delState # "idle" /\ toDelete = << >>) => removed = << >>
    /\ (delState = "running" /\ toDelete = << >> /\ ~quit) => ENABLED DeletionComplete
    /\ (delState = "delivered" /\ toDelete = << >>) =>
          /\ screen = ScreenComplete
          /\ ViewFilesDeleted = 0
          /\ Succeeded = {}
          /\ Failed = {}

\* Confirm-yes after a traversal that marked nothing for deletion, finished.
C16_Witness ==
    /\ delState = "delivered"
    /\ Len(files) > 0
    /\ toDelete = << >>
    /\ screen = ScreenComplete

\* ------------------------------------------------------------------ C17
\* The decision of an item as the reference session names it.
DecisionOf(f) == IF ~f.Decided THEN "U" ELSE IF f.Keep THEN "K" ELSE "D"

\* C17: the session of the program and the reference session, whose undo
\* pops a stack of actions, have the same cursor and the same decision and
\* deferred flag for every item.
C17_UndoMatchesActionStack ==
    /\ ref.cursor = currentFile
    /\ Len(ref.items) = Len(files)
    /\ \A i \in 1 .. Len(files) :
          /\ ref.items[i].decision = DecisionOf(files[i])
          /\ ref.items[i].deferred = files[i].Skipped

\* An undo was handled in Review and the action left on top of the stack is
\* a skip: the cursor stands right behind a deferred item.
C17_Witness ==
    /\ Handled("u", ScreenReview)
    /\ screen = ScreenReview
    /\ currentFile >= 1
    /\ Len(ref.stack) = currentFile
    /\ ref.stack[Len(ref.stack)].kind = "skip"
    /\ Len(files) > currentFile + 1

\* ------------------------------------------------------------------ C18
\* C18: once the deletion command runs, the program is force-quit or the
\* completion message is handled and the screen becomes Complete, whatever
\* the removals return; and every keep, delete or skip input in Review moves
\* the cursor one item on, reaching Confirm exactly when the cursor reaches
\* len(items), so len(items) - cursor such inputs reach Confirm.
C18_DeletionCompletesTraversalEnds ==
    /\ (delState = "running") ~> (quit \/ (delState = "delivered" /\ screen = ScreenComplete))
    /\ [][ ForwardInput =>
             /\ currentFile' = currentFile + 1
             /\ currentFile' <= Len(files)
             /\ screen' = IF currentFile' = Len(files) THEN ScreenConfirm ELSE ScreenReview ]_vars

\* A batch with a failed removal was completed.
C18_Witness ==
    /\ delState = "delivered"
    /\ screen = ScreenComplete
    /\ Failed # {}
    /\ Succeeded # {}
    /\ ~quit

\* ------------------------------------------------------------------ C19
\* C19: from Confirm on, no step changes the cursor, an item, toDelete or
\* toSkip; the list the deletion command holds is toDelete as it was shown in
\* Confirm, no step changes it, and the paths removed are its first paths.
C19_SessionFrozenAfterConfirm ==
    /\ [][ (screen \in {ScreenConfirm, ScreenProgress, ScreenComplete})
             => (UNCHANGED << currentFile, files, toDelete, toSkip >>) ]_vars
    /\ [][ delState # "idle" => delList' = delList ]_vars
    /\ [](delState # "idle" => delList = toDelete)
    /\ [](/\ Len(removed) <= Len(toDelete)
          /\ \A i \in 1 .. Len(removed) : removed[i].Path = toDelete[i].Path)

\* A tick handled in Progress between two removals of the batch.
C19_Witness ==
    /\ screen = ScreenProgress
    /\ lastMsg = Msg("tick", "", ScreenProgress)
    /\ Len(removed) >= 1
    /\ Len(removed) < Len(delList)

\* ------------------------------------------------------------------ C20
\* This step is the Update call handling a tickMsg.
TickStep ==
    /\ ~quit
    /\ lastMsg'.type = "tick"
    /\ UpdateStep

\* C20: a tick arms a new timer exactly when the screen is Loading or
\* Progress; in Review, Confirm and Complete it changes no field of the model
\* and arms nothing; in every screen it leaves the screen, the items, the
\* cursor and the derived sets as they were.
C20_TickFrame ==
    [][ TickStep =>
          /\ UNCHANGED << screen, files, currentFile, toDelete, toSkip, progress,
                          maxProgress, totalSize, err >>
          /\ UNCHANGED << loadCmd, delState, delList, removed, quit >>
          /\ IF screen \in {ScreenLoading, ScreenProgress}
             THEN ticks' = ticks
             ELSE ticks' = ticks - 1 /\ spinner' = spinner ]_vars

\* The timer armed in Loading fired in Review and was not re-armed.
C20_Witness ==
    /\ lastMsg = Msg("tick", "", ScreenReview)
    /\ screen = ScreenReview
    /\ ticks = 0

\* ------------------------------------------------------------------ C21
\* This step is an Update call handling the key "u" in Review.
UndoInReview == UndoInput /\ screen = ScreenReview

\* Items f and g differ at most in Keep, Decided and Skipped.
SameIdentity(f, g) == f.Path = g.Path /\ f.Size = g.Size

\* C21: once the catalog is attached, no step changes the length of the item
\* sequence or the path at any position; a keep, delete or skip input changes
\* no item but the current one, an undo input none but the one at cursor - 1,
\* and of that item only the decision and deferred fields; any other step
\* changes no item at all.
C21_ItemSequenceStable ==
    /\ [][ loadCmd = "done" =>
             /\ Len(files') = Len(files)
             /\ \A i \in 1 .. Len(files) : SameIdentity(files'[i], files[i]) ]_vars
    /\ [][ ForwardInput =>
             \A i \in 1 .. Len(files) : i # currentFile + 1 => files'[i] = files[i] ]_vars
    /\ [][ UndoInReview =>
             \A i \in 1 .. Len(files) : i # currentFile => files'[i] = files[i] ]_vars
    /\ [][ (loadCmd = "done" /\ ~ForwardInput /\ ~UndoInReview) => files' = files ]_vars

\* A skip, then a decide, with items still ahead: the paths are in catalog order.
C21_Witness ==
    /\ screen = ScreenReview
    /\ Len(files) >= 3
    /\ currentFile = 2
    /\ files[1].Skipped
    /\ files[2].Decided
    /\ \A i \in 1 .. (Len(files) - 1) : files[i].Path < files[i + 1].Path

\* ------------------------------------------------------------------ C22
\* C22 as stated: in Review 0 <= cursor < len(items), and cursor ==
\* len(items) holds exactly when the screen is Confirm, Progress or Complete.
C22_CursorAtEndIffPastReview ==
    /\ screen = ScreenReview => (0 <= currentFile /\ currentFile < Len(files))
    /\ currentFile = Len(files)
          <=> screen \in {ScreenConfirm, ScreenProgress, ScreenComplete}

\* C22 amended: in Review 0 <= cursor < len(items), and cursor == len(items)
\* holds exactly when the screen is Loading (no catalog attached: cursor 0,
\* no item), Confirm, Progress or Complete.
C22_CursorAtEndIffNotReview ==
    /\ screen = ScreenReview => (0 <= currentFile /\ currentFile < Len(files))
    /\ currentFile = Len(files)
          <=> screen \in {ScreenLoading, ScreenConfirm, ScreenProgress, ScreenComplete}

\* Review on the last item of a catalog of several: one input from the end.
C22_Witness ==
    /\ screen = ScreenReview
    /\ Len(files) >= 2
    /\ currentFile = Len(files) - 1
    /\ \E k \in DecideKeys : Handled(k, ScreenReview)

\* ------------------------------------------------------------------ C23
\* C23: every item at or after the cursor is Undecided and not deferred, so
\* the current item in Review never is decided or deferred, and every keep,
\* delete or skip input moves the cursor on by exactly one.
C23_ItemsAheadUntouched ==
    /\ [](\A i \in (currentFile + 1) .. Len(files) :
             ~files[i].Decided /\ ~files[i].Skipped)
    /\ [](screen = ScreenReview =>
             ~ItemAt(files, currentFile).Decided /\ ~ItemAt(files, currentFile).Skipped)
    /\ [][ ForwardInput => currentFile' = currentFile + 1 ]_vars

\* Two undos in a row after a skip and a decide: both items are ahead again.
C23_Witness ==
    /\ screen = ScreenReview
    /\ Handled("u", ScreenReview)
    /\ currentFile = 0
    /\ Len(files) >= 2
    /\ files[1].Keep
    /\ files[2].Keep

\* ------------------------------------------------------------------ C24
\* C24: at most one tick timer is armed and not yet delivered at any time.
C24_AtMostOneTickPending == ticks <= 1

====
